---- MODULE Spec2Model ----
(***************************************************************************)
(* PhonePe transaction insight dashboard (phonepe_dashboard_complete.py):  *)
(* the three record extractors, the store loader (setup_database) and the  *)
(* cached query service (get_data_from_db).                                *)
(*                                                                         *)
(* Directory and file names are sequences of one-character strings, so     *)
(* that int(year), quarter_file.endswith('.json') and                      *)
(* quarter_file.split('.')[0] are computed and can fail as in the source.  *)
(***************************************************************************)
EXTENDS Integers, Sequences, FiniteSets, TLC

VARIABLES repo, db, cache, ret, proc

vars == <<repo, db, cache, ret, proc>>

(* ------------------------------ bounds --------------------------------- *)

\* entries of a transactionData / hoverDataList list in one payload
MaxEntries == 2
\* elements of a paymentInstruments / metric / usersByDevice list
MaxInstr == 2
\* period files of one category in the extraction specification
MaxFiles == 2
\* period files of one category in the ingestion specification
MaxSrcFiles == 1

(* ------------------------------ names ---------------------------------- *)

Digits == <<"0", "1", "2", "3", "4", "5", "6", "7", "8", "9">>

IsDigit(ch) == \E i \in 1..10 : Digits[i] = ch

DigitVal(ch) == (CHOOSE i \in 1..10 : Digits[i] = ch) - 1

RECURSIVE DigitsVal(_)
DigitsVal(s) ==
    IF s = <<>> THEN 0
    ELSE 10 * DigitsVal(SubSeq(s, 1, Len(s) - 1)) + DigitVal(s[Len(s)])

\* int(s) for a name made of letters, digits and dots: the value, or ValueError
int(s) ==
    IF s # <<>> /\ \A i \in 1..Len(s) : IsDigit(s[i])
    THEN [ok |-> TRUE, val |-> DigitsVal(s)]
    ELSE [ok |-> FALSE, val |-> 0]

\* s.endswith(suf)
endswith(s, suf) ==
    /\ Len(s) >= Len(suf)
    /\ SubSeq(s, Len(s) - Len(suf) + 1, Len(s)) = suf

\* s.split('.')[0]: the part of s before its first dot (all of s without one)
SplitDot0(s) ==
    IF \E i \in 1..Len(s) : s[i] = "."
    THEN SubSeq(s, 1, (CHOOSE i \in 1..Len(s) :
                          /\ s[i] = "."
                          /\ \A j \in 1..(i - 1) : s[j] # ".") - 1)
    ELSE s

DotJson == <<".", "j", "s", "o", "n">>

Year2023 == <<"2", "0", "2", "3">>
Year2024 == <<"2", "0", "2", "4">>
YearAbc == <<"a", "b", "c">>
File1Json == <<"1", ".", "j", "s", "o", "n">>
File2Json == <<"2", ".", "j", "s", "o", "n">>
FileXJson == <<"x", ".", "j", "s", "o", "n">>
File1Txt == <<"1", ".", "t", "x", "t">>

TRANS == "aggregated_transaction"
USER == "aggregated_user"
MAP == "map_transaction"

\* the load order of setup_database
Categories == <<TRANS, USER, MAP>>

CategorySet == {TRANS, USER, MAP}

(* --------------------------- source payloads --------------------------- *)

SeqsUpTo(S, n) == UNION {[1..k -> S] : k \in 0..n}

\* One element of a paymentInstruments / metric list: an object with count and
\* amount ("ok"), an object lacking one of them ("nokey"), or a JSON number
\* where the object should be ("scalar").
Elems ==
    {[kind |-> "ok", count |-> 1, amount |-> 10],
     [kind |-> "ok", count |-> 2, amount |-> 20],
     [kind |-> "nokey", count |-> 0, amount |-> 0],
     [kind |-> "scalar", count |-> 0, amount |-> 0]}

\* The k elements after the first one, which the extractors never read: objects
\* and numbers in turn.
LaterElems(k) ==
    [i \in 1..k |-> IF i % 2 = 1 THEN [kind |-> "ok", count |-> 2, amount |-> 20]
                                 ELSE [kind |-> "scalar", count |-> 0, amount |-> 0]]

\* A paymentInstruments / metric list of at most maxInstr elements.
Lists(maxInstr) ==
    {<<>>} \cup {<<h>> \o LaterElems(k) : h \in Elems, k \in 0..(maxInstr - 1)}

EntryNames(cat) == IF cat = MAP THEN {"pune", "thane"} ELSE {"Recharge", "P2P"}

\* One entry of transactionData / hoverDataList: 'name' may be missing, the
\* paymentInstruments / metric key may be missing, its list may be empty.
Entries(cat, maxInstr) ==
    LET names == {[hasName |-> TRUE, name |-> n] : n \in EntryNames(cat)}
                   \cup {[hasName |-> FALSE, name |-> ""]}
        lists == {[hasList |-> TRUE, list |-> l] : l \in Lists(maxInstr)}
                   \cup {[hasList |-> FALSE, list |-> <<>>]}
    IN  {[hasName |-> n.hasName, name |-> n.name,
          hasList |-> l.hasList, list |-> l.list] : n \in names, l \in lists}

\* The content of a transaction or map period file:
\*   malformed  not JSON (json.load raises JSONDecodeError)
\*   nodata     an object without 'data', or whose 'data' lacks the list key
\*   nulldata   {"data": null}: a required key with the wrong type
\*   list       {"data": {<list key>: entries}}
ListPayloads(cat, maxEntries, maxInstr) ==
    {[kind |-> k, entries |-> <<>>] : k \in {"malformed", "nodata", "nulldata"}}
      \cup {[kind |-> "list", entries |-> es] :
               es \in SeqsUpTo(Entries(cat, maxInstr), maxEntries)}

\* One element of usersByDevice.
Devices ==
    {[kind |-> "ok", brand |-> "Xiaomi", count |-> 1, percentage |-> 25],
     [kind |-> "ok", brand |-> "Samsung", count |-> 2, percentage |-> 75],
     [kind |-> "nokey", brand |-> "", count |-> 0, percentage |-> 0],
     [kind |-> "scalar", brand |-> "", count |-> 0, percentage |-> 0]}

\* The content of a user period file. kind "agg" is {"data": {"aggregated": ..}}:
\*   aggKind  ok (registeredUsers and appOpens present), nokey (one is missing),
\*            null ("aggregated": null)
\*   ubdKind  usersByDevice absent, null, or a list (possibly empty)
UserPayloads(maxDevices) ==
    {[kind |-> k, aggKind |-> "ok", registeredUsers |-> 0, appOpens |-> 0,
      ubdKind |-> "absent", devices |-> <<>>] :
        k \in {"malformed", "nodata", "nulldata"}}
      \cup {[kind |-> "agg", aggKind |-> k, registeredUsers |-> 0, appOpens |-> 0,
             ubdKind |-> "absent", devices |-> <<>>] : k \in {"nokey", "null"}}
      \cup {[kind |-> "agg", aggKind |-> "ok", registeredUsers |-> ru,
             appOpens |-> 5 * ru, ubdKind |-> u, devices |-> <<>>] :
               ru \in {100, 200}, u \in {"absent", "null"}}
      \cup {[kind |-> "agg", aggKind |-> "ok", registeredUsers |-> ru,
             appOpens |-> 5 * ru, ubdKind |-> "list", devices |-> ds] :
               ru \in {100, 200}, ds \in SeqsUpTo(Devices, maxDevices)}

Payloads(cat, maxEntries, maxInstr) ==
    IF cat = USER THEN UserPayloads(maxInstr)
    ELSE ListPayloads(cat, maxEntries, maxInstr)

\* One entry of the walk <root>/<state>/<year>/<name>, in os.listdir order.
\* stateIsDir / yearIsDir are os.path.isdir of the state and year paths.
DirEntry(state, year, name, payload) ==
    [state |-> state, stateIsDir |-> TRUE, year |-> year, yearIsDir |-> TRUE,
     name |-> name, payload |-> payload]

\* A plain file found where a state or a year directory is expected.
StrayEntries(cat) ==
    LET p == CHOOSE x \in Payloads(cat, 0, 0) : x.kind = "nodata"
    IN  {[state |-> "goa", stateIsDir |-> FALSE, year |-> <<>>,
          yearIsDir |-> FALSE, name |-> <<>>, payload |-> p],
         [state |-> "goa", stateIsDir |-> TRUE, year |-> File1Txt,
          yearIsDir |-> FALSE, name |-> <<>>, payload |-> p]}

(* ------------------------------ extractors ----------------------------- *)

\* except (json.JSONDecodeError, KeyError, IndexError): the exceptions a period
\* file's try block recovers from; any other leaves the process_* function.
Caught(exc) == exc \in {"JSONDecodeError", "KeyError", "IndexError"}

\* the first exception raised by two evaluations in a row
FirstExc(a, b) == IF a # "none" THEN a ELSE b

\* 'year': int(year), 'quarter': int(quarter_file.split('.')[0])
NameExc(f) ==
    IF int(f.year).ok /\ int(SplitDot0(f.name)).ok THEN "none" ELSE "ValueError"

YearOf(f) == int(f.year).val

QuarterOf(f) == int(SplitDot0(f.name)).val

\* x['count'], x['amount'] (x['brand'], ...) on one list element
ElemExc(x) ==
    CASE x.kind = "scalar" -> "TypeError"
      [] x.kind = "nokey" -> "KeyError"
      [] x.kind = "ok" -> "none"

\* entry['name'], then entry[<list key>][0]['count'] and ['amount']
EntryExc(t) == IF ~t.hasName THEN "KeyError" ELSE ElemExc(t.list[1])

\* The exception raised while the record of one qualifying entry is built (the
\* dict display evaluates its values in order), or "none".
RecordExc(f, t) == FirstExc(NameExc(f), EntryExc(t))

\* mutant: the last list element is read instead of the first
TransactionRecordLast(f, t) ==
    [state |-> f.state, year |-> YearOf(f), quarter |-> QuarterOf(f),
     transaction_type |-> t.name,
     transaction_count |-> t.list[Len(t.list)].count,
     transaction_amount |-> t.list[Len(t.list)].amount]

TransactionRecord(f, t) ==
    [state |-> f.state, year |-> YearOf(f), quarter |-> QuarterOf(f),
     transaction_type |-> t.name,
     transaction_count |-> t.list[1].count,
     transaction_amount |-> t.list[1].amount]

MapRecord(f, t) ==
    [state |-> f.state, year |-> YearOf(f), quarter |-> QuarterOf(f),
     district |-> t.name,
     transaction_count |-> t.list[1].count,
     transaction_amount |-> t.list[1].amount]

\* The state of a try block: the records in data and the exception raised.
Running(data) == [data |-> data, exc |-> "none"]

Raised(data, exc) == [data |-> data, exc |-> exc]

\* data.append({...}): the record is appended unless building it raised
Appended(data, rec, exc) ==
    IF exc # "none" THEN Raised(data, exc) ELSE Running(Append(data, rec))

\* if '<list key>' in entry and entry['<list key>']
Qualifies(t) == t.hasList /\ t.list # <<>>

\* one iteration of: for transaction in d['data']['transactionData']
TransactionEntry(f, t, data) ==
    IF ~Qualifies(t) THEN Running(data)
    ELSE Appended(data, TransactionRecord(f, t), RecordExc(f, t))

RECURSIVE TransactionEntries(_, _, _)
TransactionEntries(f, es, r) ==
    IF es = <<>> \/ r.exc # "none" THEN r
    ELSE TransactionEntries(f, Tail(es), TransactionEntry(f, Head(es), r.data))

\* one iteration of: for district in d['data']['hoverDataList']
MapEntry(f, t, data) ==
    IF ~Qualifies(t) THEN Running(data)
    ELSE Appended(data, MapRecord(f, t), RecordExc(f, t))

RECURSIVE MapEntries(_, _, _)
MapEntries(f, es, r) ==
    IF es = <<>> \/ r.exc # "none" THEN r
    ELSE MapEntries(f, Tail(es), MapEntry(f, Head(es), r.data))

\* The body of the try block of one transaction period file: data after it and
\* the exception that ended it.
TransactionFile(f, data) ==
    CASE f.payload.kind = "malformed" -> Raised(data, "JSONDecodeError")
      [] f.payload.kind = "nodata" -> Running(data)
      [] f.payload.kind = "nulldata" -> Raised(data, "TypeError")
      [] f.payload.kind = "list" ->
           TransactionEntries(f, f.payload.entries, Running(data))

\* The body of the try block of one map period file.
MapFile(f, data) ==
    CASE f.payload.kind = "malformed" -> Raised(data, "JSONDecodeError")
      [] f.payload.kind = "nodata" -> Running(data)
      [] f.payload.kind = "nulldata" -> Raised(data, "TypeError")
      [] f.payload.kind = "list" -> MapEntries(f, f.payload.entries, Running(data))

UserRecord(f, brand, count, percentage) ==
    [state |-> f.state, year |-> YearOf(f), quarter |-> QuarterOf(f),
     registered_users |-> f.payload.registeredUsers,
     app_opens |-> f.payload.appOpens,
     brand |-> brand, count |-> count, percentage |-> percentage]

\* the else branch: the record of a file without a device breakdown
OtherRecord(f) == UserRecord(f, "Other", 0, 0)

\* one iteration of: for device_data in d['data']['usersByDevice']
UserDevice(f, dv, data) ==
    Appended(data, UserRecord(f, dv.brand, dv.count, dv.percentage),
             FirstExc(NameExc(f), ElemExc(dv)))

RECURSIVE UserDevices(_, _, _)
UserDevices(f, ds, r) ==
    IF ds = <<>> \/ r.exc # "none" THEN r
    ELSE UserDevices(f, Tail(ds), UserDevice(f, Head(ds), r.data))

\* mutant: only the presence of the usersByDevice list is tested
HasBreakdownKeyOnly(p) == p.ubdKind = "list"

\* if 'usersByDevice' in d['data'] and d['data']['usersByDevice']
HasBreakdown(p) == p.ubdKind = "list" /\ p.devices # <<>>

\* The body of the try block of one user period file.
UserFile(f, data) ==
    CASE f.payload.kind = "malformed" -> Raised(data, "JSONDecodeError")
      [] f.payload.kind = "nodata" -> Running(data)
      [] f.payload.kind = "nulldata" -> Raised(data, "TypeError")
      [] f.payload.kind = "agg" ->
           IF f.payload.aggKind = "null" THEN Raised(data, "TypeError")
           ELSE IF f.payload.aggKind = "nokey" THEN Raised(data, "KeyError")
           ELSE IF HasBreakdown(f.payload)
                THEN UserDevices(f, f.payload.devices, Running(data))
           ELSE Appended(data, OtherRecord(f), NameExc(f))

FileOutcome(cat, f, data) ==
    CASE cat = TRANS -> TransactionFile(f, data)
      [] cat = USER -> UserFile(f, data)
      [] cat = MAP -> MapFile(f, data)

\* The three nested listdir loops select the entries whose state and year paths
\* are directories and whose name ends with '.json'.
Visited(f) == f.stateIsDir /\ f.yearIsDir /\ endswith(f.name, DotJson)

PathOf(f) == <<f.state, f.year, f.name>>

\* The end of one period file's try block. w is the state of the walk: the
\* records collected (df), the files reported by "Error processing ..."
\* (errors) and the exception that left the function (exc).
Except(f, w, r) ==
    IF r.exc = "none" THEN [w EXCEPT !.df = r.data]
    ELSE IF Caught(r.exc)
         THEN [w EXCEPT !.df = r.data, !.errors = Append(@, PathOf(f))]
    ELSE [df |-> <<>>, exc |-> r.exc, errors |-> w.errors]

WalkFile(cat, f, w) ==
    IF ~Visited(f) THEN w ELSE Except(f, w, FileOutcome(cat, f, w.df))

RECURSIVE WalkFiles(_, _, _)
WalkFiles(cat, files, w) ==
    IF files = <<>> \/ w.exc # "none" THEN w
    ELSE WalkFiles(cat, Tail(files), WalkFile(cat, Head(files), w))

\* data = []
NoData == [df |-> <<>>, exc |-> "none", errors |-> <<>>]

\* A category's root that does not exist: an empty DataFrame. Only the transaction
\* extractor prints "Path not found".
PathNotFound(cat) ==
    [df |-> <<>>, exc |-> "none", errors |-> <<>>, notFound |-> cat = TRANS]

Returns(w) ==
    [df |-> w.df, exc |-> w.exc, errors |-> w.errors, notFound |-> FALSE]

process_aggregated_transaction_data(src) ==
    IF ~src.present THEN PathNotFound(TRANS)
    ELSE Returns(WalkFiles(TRANS, src.files, NoData))

process_aggregated_user_data(src) ==
    IF ~src.present THEN PathNotFound(USER)
    ELSE Returns(WalkFiles(USER, src.files, NoData))

process_map_transaction_data(src) ==
    IF ~src.present THEN PathNotFound(MAP)
    ELSE Returns(WalkFiles(MAP, src.files, NoData))

Process(cat, src) ==
    CASE cat = TRANS -> process_aggregated_transaction_data(src)
      [] cat = USER -> process_aggregated_user_data(src)
      [] cat = MAP -> process_map_transaction_data(src)

(* ------------------------------- the store ----------------------------- *)

NoTable == [present |-> FALSE, rows |-> <<>>]

\* phonepe_data.db: whether the file exists, and its three tables
NoDb == [exists |-> FALSE, tables |-> [c \in CategorySet |-> NoTable]]

\* mutant: if_exists="append"
to_sql_append(d, cat, df) ==
    [d EXCEPT !.tables[cat] = [present |-> TRUE, rows |-> @.rows \o df]]

\* mutant: every block writes the table of the first block
to_sql_first_table(d, cat, df) ==
    [d EXCEPT !.tables[TRANS] = [present |-> TRUE, rows |-> df]]

\* df.to_sql(<table>, conn, if_exists="replace", index=False)
to_sql(d, cat, df) ==
    [d EXCEPT !.tables[cat] = [present |-> TRUE, rows |-> df]]

\* mutant: the dataset is written without the df.empty test
LoadedAlways(st, cat, r) ==
    IF r.exc # "none" THEN [db |-> st.db, raised |-> TRUE]
    ELSE [db |-> [st.db EXCEPT !.tables[cat] = [present |-> TRUE, rows |-> r.df]],
          raised |-> FALSE]

\* if not df.empty: df.to_sql(...), for the outcome r of the category's process_*
\* function; an exception leaves the try block of setup_database.
Loaded(st, cat, r) ==
    IF r.exc # "none" THEN [db |-> st.db, raised |-> TRUE]
    ELSE IF r.df # <<>> THEN [db |-> to_sql(st.db, cat, r.df), raised |-> FALSE]
    ELSE st

\* One "Process and load" block of setup_database, inside its try: st.raised
\* says that an earlier block raised, so that this one is never reached.
LoadCategory(rp, st, cat) ==
    IF st.raised THEN st ELSE Loaded(st, cat, Process(cat, rp.src[cat]))

RECURSIVE LoadAll(_, _, _)
LoadAll(rp, st, cats) ==
    IF cats = <<>> THEN st
    ELSE LoadAll(rp, LoadCategory(rp, st, Head(cats)), Tail(cats))

\* conn = sqlite3.connect(DATABASE_NAME) creates the file when it does not exist
Connected(d) == [db |-> [d EXCEPT !.exists = TRUE], raised |-> FALSE]

\* return True at the end of the try block, return False from the except block
Completed(st) == [db |-> st.db, ok |-> ~st.raised]

\* setup_database(): the store after the run and the value returned
setup_database(rp, d) ==
    IF ~rp.exists THEN [db |-> d, ok |-> FALSE]
    ELSE Completed(LoadAll(rp, Connected(d), Categories))

\* What a df.to_sql(..., if_exists="replace") call that raises (disk full, locked
\* file) leaves of its own table: the table as it was, or no table when the
\* failure comes after the old table was dropped.
WriteFaults == {"kept", "dropped"}

to_sql_raises(d, cat, left) ==
    IF left = "dropped" THEN [d EXCEPT !.tables[cat] = NoTable] ELSE d

\* One "Process and load" block in a run where the write of table bad raises.
LoadedOrRaises(st, cat, r, bad, left) ==
    IF r.exc = "none" /\ r.df # <<>> /\ cat = bad
    THEN [db |-> to_sql_raises(st.db, cat, left), raised |-> TRUE]
    ELSE Loaded(st, cat, r)

LoadCategoryOrRaises(rp, st, cat, bad, left) ==
    IF st.raised THEN st
    ELSE LoadedOrRaises(st, cat, Process(cat, rp.src[cat]), bad, left)

RECURSIVE LoadAllOrRaises(_, _, _, _, _)
LoadAllOrRaises(rp, st, cats, bad, left) ==
    IF cats = <<>> THEN st
    ELSE LoadAllOrRaises(rp, LoadCategoryOrRaises(rp, st, Head(cats), bad, left),
                         Tail(cats), bad, left)

\* setup_database() in a run where the write of table bad raises
setup_database_write_raises(rp, d, bad, left) ==
    IF ~rp.exists THEN [db |-> d, ok |-> FALSE]
    ELSE Completed(LoadAllOrRaises(rp, Connected(d), Categories, bad, left))

\* the categories whose block comes no later than cat's in the try block
UpTo(cat) ==
    CASE cat = TRANS -> {TRANS} [] cat = USER -> {TRANS, USER} [] cat = MAP -> CategorySet

\* the run reaches the to_sql call of table bad
WriteReached(rp, bad) ==
    /\ rp.exists
    /\ \A c \in UpTo(bad) : Process(c, rp.src[c]).exc = "none"
    /\ Process(bad, rp.src[bad]).df # <<>>

(* --------------------------- the query service ------------------------- *)

\* total_trans_query of the overview tab for one selected year and quarter
TotalTransQuery(y, q) == [text |-> "total_trans", year |-> y, quarter |-> q]

\* a query text that is not SQL
BadQuery == [text |-> "SELEC", year |-> 0, quarter |-> 0]

Queries == {TotalTransQuery(2023, 1), BadQuery}

RECURSIVE SumWhere(_, _, _, _)
SumWhere(rows, y, q, col) ==
    IF rows = <<>> THEN 0
    ELSE (IF Head(rows).year = y /\ Head(rows).quarter = q
          THEN (IF col = "amount" THEN Head(rows).transaction_amount
                ELSE Head(rows).transaction_count)
          ELSE 0) + SumWhere(Tail(rows), y, q, col)

\* total_users_query of the overview tab for one selected year and quarter
TotalUsersQuery(y, q) == [text |-> "total_users", year |-> y, quarter |-> q]

\* SUM(registered_users), SUM(app_opens) ... WHERE year = y AND quarter = q
RECURSIVE SumUsersWhere(_, _, _, _)
SumUsersWhere(rows, y, q, col) ==
    IF rows = <<>> THEN 0
    ELSE (IF Head(rows).year = y /\ Head(rows).quarter = q
          THEN (IF col = "users" THEN Head(rows).registered_users
                ELSE Head(rows).app_opens)
          ELSE 0) + SumUsersWhere(Tail(rows), y, q, col)

\* pd.read_sql_query(query, conn): the rows, or failed (no such table, syntax
\* error). SUM over no row is NULL, which COALESCE turns into 0.
read_sql_query(query, d) ==
    IF query.text = "total_trans" /\ d.tables[TRANS].present
    THEN [failed |-> FALSE,
          df |-> <<[total_amount |-> SumWhere(d.tables[TRANS].rows, query.year,
                                              query.quarter, "amount"),
                    total_count |-> SumWhere(d.tables[TRANS].rows, query.year,
                                             query.quarter, "count")]>>]
    ELSE IF query.text = "total_users" /\ d.tables[USER].present
    THEN [failed |-> FALSE,
          df |-> <<[total_users |-> SumUsersWhere(d.tables[USER].rows, query.year,
                                                  query.quarter, "users"),
                    total_opens |-> SumUsersWhere(d.tables[USER].rows, query.year,
                                                  query.quarter, "opens")]>>]
    ELSE [failed |-> TRUE, df |-> <<>>]

\* mutant: no except block, the failure leaves get_data_from_db
Unhandled(r) ==
    IF r.failed THEN [df |-> <<>>, error |-> FALSE, raised |-> TRUE]
    ELSE [df |-> r.df, error |-> FALSE, raised |-> FALSE]

get_data_from_db_unhandled(query, d) == Unhandled(read_sql_query(query, d))

\* return df, or except Exception: st.error(...); return pd.DataFrame()
Handled(r) ==
    IF r.failed THEN [df |-> <<>>, error |-> TRUE, raised |-> FALSE]
    ELSE [df |-> r.df, error |-> FALSE, raised |-> FALSE]

\* The body of get_data_from_db: the DataFrame returned, whether st.error was
\* called, and whether an exception left the function.
get_data_from_db(query, d) == Handled(read_sql_query(query, d))

NotCached == [cached |-> FALSE, df |-> <<>>, error |-> FALSE]

\* a cache hit: the stored value is returned and its elements are replayed
Hit(entry) ==
    [entry |-> entry, df |-> entry.df, error |-> entry.error, raised |-> FALSE,
     hit |-> TRUE]

\* a cache miss: a call that returns is stored with the elements it displayed
Miss(r) ==
    [entry |-> IF r.raised THEN NotCached
               ELSE [cached |-> TRUE, df |-> r.df, error |-> r.error],
     df |-> r.df, error |-> r.error, raised |-> r.raised, hit |-> FALSE]

\* @st.cache_data around get_data_from_db, keyed by the query text: the outcome
\* of one call and the entry of the text after it. Nothing removes an entry.
cache_data(entry, query, d) ==
    IF entry.cached THEN Hit(entry) ELSE Miss(get_data_from_db(query, d))

(* ------------------------------ source trees --------------------------- *)

\* A sequence of walk entries that a directory tree can produce: no path occurs
\* twice, a path is a directory or a file but not both, and the entries of one
\* directory are listed together.
IsListing(t) ==
    /\ \A i, j \in 1..Len(t) :
         /\ t[i].state = t[j].state => t[i].stateIsDir = t[j].stateIsDir
         /\ (t[i].state = t[j].state /\ t[i].year = t[j].year)
              => t[i].yearIsDir = t[j].yearIsDir
         /\ (i # j /\ t[i].state = t[j].state /\ t[i].year = t[j].year)
              => (t[i].yearIsDir /\ t[i].name # t[j].name)
    /\ \A i, j, k \in 1..Len(t) :
         (i < j /\ j < k) =>
           /\ t[i].state = t[k].state => t[j].state = t[i].state
           /\ (t[i].state = t[k].state /\ t[i].year = t[k].year)
                => t[j].year = t[i].year

Listings(files, n) == {t \in SeqsUpTo(files, n) : IsListing(t)}

Src(t) == [present |-> TRUE, files |-> t]

\* the category's root path does not exist
NoSrc == [present |-> FALSE, files |-> <<>>]

\* pulse/ has not been cloned
NoRepo == [exists |-> FALSE, src |-> [c \in CategorySet |-> NoSrc]]

\* One period file with any payload within the bounds.
RichFiles(cat) ==
    {DirEntry("maharashtra", Year2023, File1Json, p) :
        p \in Payloads(cat, MaxEntries, MaxInstr)}

\* A period file that yields one record.
GoodPayload(cat) ==
    IF cat = USER
    THEN [kind |-> "agg", aggKind |-> "ok", registeredUsers |-> 100,
          appOpens |-> 500, ubdKind |-> "null", devices |-> <<>>]
    ELSE [kind |-> "list",
          entries |-> <<[hasName |-> TRUE,
                         name |-> IF cat = MAP THEN "pune" ELSE "Recharge",
                         hasList |-> TRUE,
                         list |-> <<[kind |-> "ok", count |-> 1, amount |-> 10]>>]>>]

\* The payloads of the files of a many-file tree: each kind of payload, with at
\* most one entry of one element.
SmallPayloads(cat) ==
    IF cat = USER
    THEN {p \in UserPayloads(1) :
            /\ p.registeredUsers \in {0, 100}
            /\ \A i \in 1..Len(p.devices) : p.devices[i].brand # "Samsung"}
    ELSE {p \in ListPayloads(cat, 1, 1) :
            \A i \in 1..Len(p.entries) :
              /\ p.entries[i].hasList
              /\ p.entries[i].list # <<>>
              /\ p.entries[i].name \in {"", GoodPayload(cat).entries[1].name}
              /\ ~p.entries[i].hasName => p.entries[i].list[1].count = 1}

\* Period files under well-formed and malformed year and file names, and the
\* entries the walk skips.
SmallFiles(cat) ==
    {DirEntry("maharashtra", y, n, p) :
        y \in {Year2023, YearAbc}, n \in {File1Json, File2Json, FileXJson},
        p \in SmallPayloads(cat)}
      \cup {DirEntry("maharashtra", Year2023, File1Txt,
                     CHOOSE x \in Payloads(cat, 0, 0) : x.kind = "malformed")}
      \cup StrayEntries(cat)

\* the trees of the extraction specification
ExtractTrees(cat) ==
    {<<f>> : f \in RichFiles(cat)} \cup Listings(SmallFiles(cat), MaxFiles)

\* the period files of the ingestion specification: a file of 2023 Q1, the same
\* payload under a year directory named abc, and for transactions one of 2023 Q2
SrcFiles(cat) ==
    {DirEntry("maharashtra", Year2023, File1Json, GoodPayload(cat)),
     DirEntry("maharashtra", YearAbc, File1Json, GoodPayload(cat))}
      \cup (IF cat = TRANS
            THEN {DirEntry("maharashtra", Year2023, File2Json, GoodPayload(cat))}
            ELSE {})

\* what one category's root can be in the ingestion specification
Sources(cat) == {NoSrc} \cup {Src(t) : t \in Listings(SrcFiles(cat), MaxSrcFiles)}

(* ---------------------------- the state machine ------------------------ *)

\* ret is the outcome of the last operation; n counts consecutive setup runs
NoRet ==
    [op |-> "none", ok |-> TRUE, q |-> BadQuery, df |-> <<>>, error |-> FALSE,
     hit |-> FALSE, n |-> 0]

Init ==
    /\ repo = NoRepo
    /\ db = NoDb
    /\ cache = [q \in Queries |-> NotCached]
    /\ ret = NoRet
    /\ proc = "serving"

\* clone_phonepe_repository(): git clone creates pulse/ when it is not there
\* (with whatever the upstream repository holds), or fails and leaves nothing.
CloneSucceeds ==
    /\ ~repo.exists
    /\ \E s \in [CategorySet -> UNION {Sources(c) : c \in CategorySet}] :
         /\ \A c \in CategorySet : s[c] \in Sources(c)
         /\ repo' = [exists |-> TRUE, src |-> s]
    /\ ret' = [NoRet EXCEPT !.op = "clone", !.ok = TRUE]
    /\ UNCHANGED <<db, cache, proc>>

CloneFails ==
    /\ ~repo.exists
    /\ ret' = [NoRet EXCEPT !.op = "clone", !.ok = FALSE]
    /\ UNCHANGED <<repo, db, cache, proc>>

CloneExists ==
    /\ repo.exists
    /\ ret' = [NoRet EXCEPT !.op = "clone", !.ok = TRUE]
    /\ UNCHANGED <<repo, db, cache, proc>>

\* The source tree changes between runs (a pull, an edit): one category's root
\* becomes another tree, or goes missing.
SourceChanges(cat, s) ==
    /\ repo.exists
    /\ s # repo.src[cat]
    /\ repo' = [repo EXCEPT !.src[cat] = s]
    /\ ret' = NoRet
    /\ UNCHANGED <<db, cache, proc>>

\* the effect of one run on the state, for its outcome r
Ingested(r) ==
    /\ db' = r.db
    /\ ret' = [NoRet EXCEPT !.op = "setup", !.ok = r.ok,
                            !.n = IF ret.op = "setup" THEN 2 ELSE 1]

\* python phonepe_dashboard_complete.py setup: the ingestion run
SetupDatabase ==
    /\ Ingested(setup_database(repo, db))
    /\ UNCHANGED <<repo, cache, proc>>

\* the effect of one call on the serving process, for its outcome r
Served(query, r) ==
    /\ cache' = [cache EXCEPT ![query] = r.entry]
    /\ ret' = [NoRet EXCEPT !.op = "query", !.q = query, !.hit = r.hit,
                            !.df = r.df, !.error = r.error, !.ok = ~r.raised]
    /\ proc' = IF r.raised THEN "crashed" ELSE "serving"

\* One call get_data_from_db(query) of a dashboard run; create_dashboard returns
\* before its first query when the store file does not exist.
Query(query) ==
    /\ proc = "serving"
    /\ db.exists
    /\ Served(query, cache_data(cache[query], query, db))
    /\ UNCHANGED <<repo, db>>

Next ==
    \/ CloneSucceeds
    \/ CloneFails
    \/ CloneExists
    \/ \E cat \in CategorySet : \E s \in Sources(cat) : SourceChanges(cat, s)
    \/ SetupDatabase
    \/ \E query \in Queries : Query(query)

Spec == Init /\ [][Next]_vars

\* the effect on the state of a run whose write of table bad raised
IngestedWriteRaised(r, bad, left) ==
    /\ db' = r.db
    /\ ret' = [op |-> "setup", ok |-> r.ok, fault |-> bad, left |-> left]

\* An ingestion run during which the store rejects the write of one table.
SetupDatabaseWriteRaises(bad, left) ==
    /\ WriteReached(repo, bad)
    /\ IngestedWriteRaised(setup_database_write_raises(repo, db, bad, left), bad, left)
    /\ UNCHANGED <<repo, cache, proc>>

NextStoreFault ==
    \/ Next
    \/ \E bad \in CategorySet : \E left \in WriteFaults :
         SetupDatabaseWriteRaises(bad, left)

\* The system with a store that can reject a write.
SpecStoreFault == Init /\ [][NextStoreFault]_vars

\* The setup command and the dashboard, step by step. proc is the position of
\* the running command ("shell" when none runs); ret.log lists what the command
\* has done and printed so far.
InitMain ==
    /\ repo = NoRepo
    /\ db = NoDb
    /\ cache = [q \in Queries |-> NotCached]
    /\ ret = [op |-> "main", log |-> <<>>]
    /\ proc = "shell"

Logged(step) == [op |-> "main", log |-> Append(ret.log, step)]

\* main(): sys.argv[1] == "setup", install_requirements() returns
MainInstall ==
    /\ proc = "shell"
    /\ proc' = "installed"
    /\ ret' = [op |-> "main", log |-> <<"install">>]
    /\ UNCHANGED <<repo, db, cache>>

\* install_requirements(): pip fails, check_call raises and the command ends
MainInstallRaises ==
    /\ proc = "shell"
    /\ proc' = "shell"
    /\ ret' = [op |-> "main", log |-> <<"install raised">>]
    /\ UNCHANGED <<repo, db, cache>>

\* mutant: ingestion is started whatever the clone step returned
main_after_clone_always(ok) == "cloned"

\* if clone_phonepe_repository(): ... else: print("Repository setup failed!")
main_after_clone(ok) == IF ok THEN "cloned" ELSE "clone failed"

\* clone_phonepe_repository() called by main: the three outcomes of the function
MainClone ==
    /\ proc = "installed"
    /\ \/ /\ ~repo.exists
          /\ \E s \in [CategorySet -> UNION {Sources(c) : c \in CategorySet}] :
               /\ \A c \in CategorySet : s[c] \in Sources(c)
               /\ repo' = [exists |-> TRUE, src |-> s]
          /\ proc' = main_after_clone(TRUE)
          /\ ret' = Logged("clone ok")
       \/ /\ ~repo.exists
          /\ repo' = repo
          /\ proc' = main_after_clone(FALSE)
          /\ ret' = Logged("clone failed")
       \/ /\ repo.exists
          /\ repo' = repo
          /\ proc' = main_after_clone(TRUE)
          /\ ret' = Logged("clone ok")
    /\ UNCHANGED <<db, cache>>

\* the position and the log after setup_database() returned r
MainIngested(r) ==
    /\ db' = r.db
    /\ proc' = IF r.ok THEN "loaded" ELSE "load failed"
    /\ ret' = Logged(IF r.ok THEN "setup ok" ELSE "setup failed")

\* if setup_database(): ...
MainSetupDatabase ==
    /\ proc = "cloned"
    /\ MainIngested(setup_database(repo, db))
    /\ UNCHANGED <<repo, cache>>

\* the message main prints before it returns
MainMessage(pos) ==
    CASE pos = "loaded" -> "Setup completed successfully!"
      [] pos = "load failed" -> "Database setup failed!"
      [] pos = "clone failed" -> "Repository setup failed!"

MainReport ==
    /\ proc \in {"loaded", "load failed", "clone failed"}
    /\ ret' = Logged(MainMessage(proc))
    /\ proc' = "shell"
    /\ UNCHANGED <<repo, db, cache>>

\* the source tree changes while no command runs
MainSourceChanges(cat, s) ==
    /\ proc = "shell"
    /\ repo.exists
    /\ s # repo.src[cat]
    /\ repo' = [repo EXCEPT !.src[cat] = s]
    /\ UNCHANGED <<db, cache, ret, proc>>

\* the dashboard after the call get_data_from_db(query), for its outcome r
Shown(query, r) ==
    /\ cache' = [cache EXCEPT ![query] = r.entry]
    /\ ret' = [op |-> "dashboard", log |-> <<"query">>]

\* create_dashboard(): without the store file it shows "Database not found!" and
\* returns; with it, it goes on to its queries.
MainDashboard ==
    /\ proc = "shell"
    /\ IF ~db.exists
       THEN /\ ret' = [op |-> "dashboard", log |-> <<"Database not found!">>]
            /\ cache' = cache
       ELSE \E query \in Queries : Shown(query, cache_data(cache[query], query, db))
    /\ UNCHANGED <<repo, db, proc>>

NextMain ==
    \/ MainInstall
    \/ MainInstallRaises
    \/ MainClone
    \/ MainSetupDatabase
    \/ MainReport
    \/ \E cat \in CategorySet : \E s \in Sources(cat) : MainSourceChanges(cat, s)
    \/ MainDashboard

SpecMain == InitMain /\ [][NextMain]_vars

\* The extraction specification: one category's root holds a tree, the other two
\* roots are missing, and a process_* function is applied.
InitExtract ==
    /\ \E cat \in CategorySet : \E t \in ExtractTrees(cat) :
         repo = [exists |-> TRUE, src |-> [NoRepo.src EXCEPT ![cat] = Src(t)]]
    /\ db = NoDb
    /\ cache = [q \in Queries |-> NotCached]
    /\ ret = NoRet
    /\ proc = "serving"

Extract(cat) ==
    /\ ret.op = "none"
    /\ ret' = [op |-> "process", cat |-> cat, out |-> Process(cat, repo.src[cat])]
    /\ UNCHANGED <<repo, db, cache, proc>>

NextExtract == \E cat \in CategorySet : Extract(cat)

SpecExtract == InitExtract /\ [][NextExtract]_vars

(* ------------------- properties of the extractors ---------------------- *)

\* the entries of the walked category that are period files: a '.json' name
\* under a state directory and a year directory
IsPeriodFile(f) ==
    f.stateIsDir /\ f.yearIsDir /\ f.name \in {File1Json, File2Json, FileXJson}

\* a period file whose year directory and file name are integers
WellNamed(f) == f.year \in {Year2023, Year2024} /\ f.name \in {File1Json, File2Json}

YearNumber(f) == CASE f.year = Year2023 -> 2023 [] f.year = Year2024 -> 2024

QuarterNumber(f) == CASE f.name = File1Json -> 1 [] f.name = File2Json -> 2

\* the same file under a well-formed year directory and file name
Renamed(f) == [f EXCEPT !.year = Year2023, !.name = File1Json]

\* what a period file yields when it is the only file of its category
Alone(cat, f) == FileOutcome(cat, f, <<>>)

RECURSIVE IsSubseq(_, _)
IsSubseq(a, b) ==
    IF a = <<>> THEN TRUE
    ELSE IF b = <<>> THEN FALSE
    ELSE IF Head(a) = Head(b) THEN IsSubseq(Tail(a), Tail(b))
    ELSE IsSubseq(a, Tail(b))

\* the records, in walk order, of the period files that raise nothing
RECURSIVE RecordsOfHealthy(_, _)
RecordsOfHealthy(cat, files) ==
    IF files = <<>> THEN <<>>
    ELSE (IF IsPeriodFile(Head(files)) /\ Alone(cat, Head(files)).exc = "none"
          THEN Alone(cat, Head(files)).data ELSE <<>>)
           \o RecordsOfHealthy(cat, Tail(files))

\* the records, in walk order, of the well-named period files
RECURSIVE RecordsOfWellNamed(_, _)
RecordsOfWellNamed(cat, files) ==
    IF files = <<>> THEN <<>>
    ELSE (IF IsPeriodFile(Head(files)) /\ WellNamed(Head(files))
          THEN Alone(cat, Head(files)).data ELSE <<>>)
           \o RecordsOfWellNamed(cat, Tail(files))

Extracted == ret.op = "process" /\ repo.src[ret.cat].present

ExtractedFiles == repo.src[ret.cat].files

\* C1: per-file isolation on payload errors. When every period file of the
\* category is well named, whatever the payloads are (malformed JSON, a required
\* key missing, a value of the wrong type), the extraction completes and its
\* dataset contains, in order, every record of every file that has no error.
C1_PayloadErrorIsolation ==
    (/\ Extracted
     /\ \A i \in 1..Len(ExtractedFiles) :
          IsPeriodFile(ExtractedFiles[i]) => WellNamed(ExtractedFiles[i]))
      => /\ ret.out.exc = "none"
         /\ IsSubseq(RecordsOfHealthy(ret.cat, ExtractedFiles), ret.out.df)

\* C2: malformed names fail per file. When every period file of the category
\* would be processed without error under a well-formed name, the extraction
\* completes whatever the year directory and file names are, and its dataset is
\* exactly the records of the well-named files.
C2_NameErrorIsolation ==
    (/\ Extracted
     /\ \A i \in 1..Len(ExtractedFiles) :
          IsPeriodFile(ExtractedFiles[i])
            => Alone(ret.cat, Renamed(ExtractedFiles[i])).exc = "none")
      => /\ ret.out.exc = "none"
         /\ ret.out.df = RecordsOfWellNamed(ret.cat, ExtractedFiles)

\* a transaction or map payload with the expected shape: a list of named entries
\* whose instrument / metric list, when present and non-empty, starts with an
\* object that has count and amount
ValidListFile(f) ==
    /\ WellNamed(f)
    /\ f.payload.kind = "list"
    /\ \A i \in 1..Len(f.payload.entries) :
         LET t == f.payload.entries[i]
         IN  /\ t.hasName
             /\ (t.hasList /\ Len(t.list) > 0) => t.list[1].kind = "ok"

\* the record the first-element rule asks for, for entry t of file f
FirstElementRecord(cat, f, t) ==
    IF cat = TRANS
    THEN [state |-> f.state, year |-> YearNumber(f), quarter |-> QuarterNumber(f),
          transaction_type |-> t.name,
          transaction_count |-> Head(t.list).count,
          transaction_amount |-> Head(t.list).amount]
    ELSE [state |-> f.state, year |-> YearNumber(f), quarter |-> QuarterNumber(f),
          district |-> t.name,
          transaction_count |-> Head(t.list).count,
          transaction_amount |-> Head(t.list).amount]

RECURSIVE FirstElementRecords(_, _, _)
FirstElementRecords(cat, f, es) ==
    IF es = <<>> THEN <<>>
    ELSE (IF Head(es).hasList /\ Len(Head(es).list) > 0
          THEN <<FirstElementRecord(cat, f, Head(es))>> ELSE <<>>)
           \o FirstElementRecords(cat, f, Tail(es))

RECURSIVE FirstElementDataset(_, _)
FirstElementDataset(cat, files) ==
    IF files = <<>> THEN <<>>
    ELSE (IF IsPeriodFile(Head(files))
          THEN FirstElementRecords(cat, Head(files), Head(files).payload.entries)
          ELSE <<>>)
           \o FirstElementDataset(cat, Tail(files))

\* C3: the first-element extraction rule. For a transaction or map tree whose
\* period files all hold valid payloads, extraction completes and yields exactly
\* one record per entry whose paymentInstruments / metric list is present and
\* non-empty, in entry order, carrying the entry's name and the count and amount
\* of the first list element; other entries yield nothing and later list
\* elements are ignored.
C3_FirstElementRule ==
    (/\ Extracted
     /\ ret.cat \in {TRANS, MAP}
     /\ \A i \in 1..Len(ExtractedFiles) :
          IsPeriodFile(ExtractedFiles[i]) => ValidListFile(ExtractedFiles[i]))
      => /\ ret.out.exc = "none"
         /\ ret.out.df = FirstElementDataset(ret.cat, ExtractedFiles)

\* C3 witness: a transaction file with two entries was extracted; the first has
\* two instruments and yields the record of instrument 1, the second has an
\* empty list and yields nothing.
C3_Witness ==
    /\ Extracted
    /\ ret.cat = TRANS
    /\ Len(ExtractedFiles) = 1
    /\ ValidListFile(ExtractedFiles[1])
    /\ Len(ExtractedFiles[1].payload.entries) = 2
    /\ Len(ExtractedFiles[1].payload.entries[1].list) = 2
    /\ ExtractedFiles[1].payload.entries[1].list[1].count = 1
    /\ ExtractedFiles[1].payload.entries[1].list[2].count = 2
    /\ ExtractedFiles[1].payload.entries[2].hasList
    /\ ExtractedFiles[1].payload.entries[2].list = <<>>
    /\ Len(ret.out.df) = 1
    /\ ret.out.df[1].transaction_count = 1
    /\ ret.out.df[1].transaction_amount = 10

\* C4: the "Other" sentinel. For a user file that has the aggregated totals:
\* when usersByDevice is absent, null or empty, extraction yields exactly one
\* record, with brand "Other", count 0, percentage 0 and the payload's
\* registeredUsers and appOpens; when it is non-empty, every record extracted is
\* the record of a brand entry, and none is an "Other" record.
C4_OtherSentinel ==
    (/\ Extracted
     /\ ret.cat = USER
     /\ Len(ExtractedFiles) = 1
     /\ IsPeriodFile(ExtractedFiles[1])
     /\ WellNamed(ExtractedFiles[1])
     /\ ExtractedFiles[1].payload.kind = "agg"
     /\ ExtractedFiles[1].payload.aggKind = "ok")
      => LET f == ExtractedFiles[1]
             p == f.payload
         IN  IF p.ubdKind \in {"absent", "null"} \/ p.devices = <<>>
             THEN /\ ret.out.exc = "none"
                  /\ ret.out.df =
                       <<[state |-> f.state, year |-> YearNumber(f),
                          quarter |-> QuarterNumber(f),
                          registered_users |-> p.registeredUsers,
                          app_opens |-> p.appOpens,
                          brand |-> "Other", count |-> 0, percentage |-> 0]>>
             ELSE /\ Len(ret.out.df) <= Len(p.devices)
                  /\ \A i \in 1..Len(ret.out.df) :
                       /\ ret.out.df[i].brand = p.devices[i].brand
                       /\ ret.out.df[i].brand # "Other"
                       /\ ret.out.df[i].count = p.devices[i].count
                       /\ ret.out.df[i].percentage = p.devices[i].percentage
                       /\ ret.out.df[i].registered_users = p.registeredUsers
                       /\ ret.out.df[i].app_opens = p.appOpens

\* C4 witness: a user file whose usersByDevice is null was extracted into the
\* single "Other" record.
C4_Witness ==
    /\ Extracted
    /\ ret.cat = USER
    /\ Len(ExtractedFiles) = 1
    /\ ExtractedFiles[1].payload.kind = "agg"
    /\ ExtractedFiles[1].payload.ubdKind = "null"
    /\ ExtractedFiles[1].payload.registeredUsers = 200
    /\ Len(ret.out.df) = 1
    /\ ret.out.df[1].brand = "Other"
    /\ ret.out.df[1].registered_users = 200
    /\ ret.out.df[1].app_opens = 1000

(* ---------------------- properties of the ingestion -------------------- *)

\* the dataset the run extracts for a category (empty when extraction raises)
Dataset(cat) == Process(cat, repo.src[cat]).df

Q1Rows == <<[state |-> "maharashtra", year |-> 2023, quarter |-> 1,
             transaction_type |-> "Recharge", transaction_count |-> 1,
             transaction_amount |-> 10]>>

Q2Rows == <<[state |-> "maharashtra", year |-> 2023, quarter |-> 2,
             transaction_type |-> "Recharge", transaction_count |-> 1,
             transaction_amount |-> 10]>>

\* C5: reload idempotence. A run of setup_database that directly follows a run
\* on the same source tree leaves the store, the three tables included, exactly
\* as the first run left it.
C5_ReloadIdempotent ==
    [][(ret.op = "setup" /\ ret'.op = "setup") => db' = db]_vars

\* C5 witness: a second run in a row has completed on a store holding rows.
C5_Witness ==
    /\ ret.op = "setup"
    /\ ret.n = 2
    /\ ret.ok
    /\ db.tables[TRANS].rows = Q1Rows
    /\ db.tables[USER].present
    /\ db.tables[MAP].present

\* C6 as claimed: after a successful run every table holds exactly the records
\* extracted from the source tree of that run (no rows when there are none).
C6_FullReconstruction ==
    (ret.op = "setup" /\ ret.ok)
      => \A cat \in CategorySet : db.tables[cat].rows = Dataset(cat)

\* C6 amended: a successful run leaves every table whose category's dataset is
\* non-empty with exactly the records extracted from the source tree of that
\* run, and every table whose category's dataset is empty as it was before.
C6_NonEmptyReconstruction ==
    [][(ret'.op = "setup" /\ ret'.ok)
         => \A cat \in CategorySet :
              IF Dataset(cat) # <<>>
              THEN db'.tables[cat] = [present |-> TRUE, rows |-> Dataset(cat)]
              ELSE db'.tables[cat] = db.tables[cat]]_vars

\* C6 witness: a successful run has replaced the Q1 rows of an earlier run,
\* whose total is still in the cache, by the Q2 rows of the present tree.
C6_Witness ==
    /\ ret.op = "setup"
    /\ ret.ok
    /\ Dataset(TRANS) = Q2Rows
    /\ db.tables[TRANS].rows = Q2Rows
    /\ cache[TotalTransQuery(2023, 1)].cached
    /\ cache[TotalTransQuery(2023, 1)].df = <<[total_amount |-> 10, total_count |-> 1]>>

\* C7: the loader's frame condition. In every run, successful or not, a table
\* whose category's dataset is empty is neither created, dropped nor modified,
\* and a table that changes holds its own category's dataset afterwards.
C7_LoaderFrame ==
    [][ret'.op = "setup"
         => \A cat \in CategorySet :
              /\ Dataset(cat) = <<>> => db'.tables[cat] = db.tables[cat]
              /\ db'.tables[cat] # db.tables[cat]
                   => db'.tables[cat] = [present |-> TRUE, rows |-> Dataset(cat)]]_vars

\* C7 witness: after a run on a tree without transaction records the transaction
\* table still holds the rows of an earlier run, next to a user table loaded by
\* this run and a map table that stayed absent.
C7_Witness ==
    /\ ret.op = "setup"
    /\ ret.ok
    /\ Dataset(TRANS) = <<>>
    /\ db.tables[TRANS].rows = Q1Rows
    /\ Dataset(USER) # <<>>
    /\ db.tables[USER].rows = Dataset(USER)
    /\ Dataset(MAP) = <<>>
    /\ ~db.tables[MAP].present

\* C10: category independence. After a run on a cloned repository, every category
\* whose own extraction succeeds with records has them in its table, whatever
\* happens to the other categories (a missing root, a failing extraction), and
\* a missing root gives an empty dataset, not an exception.
C10_CategoryIndependence ==
    (ret.op = "setup" /\ repo.exists)
      => \A cat \in CategorySet :
           /\ (Process(cat, repo.src[cat]).exc = "none" /\ Dataset(cat) # <<>>)
                => db.tables[cat] = [present |-> TRUE, rows |-> Dataset(cat)]
           /\ ~repo.src[cat].present
                => /\ Process(cat, repo.src[cat]).exc = "none"
                   /\ Dataset(cat) = <<>>

(* -------------------- properties of the query service ------------------ *)

\* C8: cache invalidation on reload. Every result get_data_from_db returns is
\* the result of executing the query text against the store as it is now.
C8_NoStaleResult ==
    ret.op = "query"
      => /\ ret.df = read_sql_query(ret.q, db).df
         /\ ret.error = read_sql_query(ret.q, db).failed

\* C9: a query failure is a value. When the execution of a query fails, the call
\* returns an empty result and reports an error, and the serving process keeps
\* serving.
C9_QueryFailureIsValue ==
    /\ proc = "serving"
    /\ (ret.op = "query" /\ ~ret.hit /\ read_sql_query(ret.q, db).failed)
         => (ret.ok /\ ret.df = <<>> /\ ret.error)

\* C9 witness: a malformed query has failed after a query on the missing
\* transaction table had failed, and the process is serving.
C9_Witness ==
    /\ proc = "serving"
    /\ ret.op = "query"
    /\ ret.q = BadQuery
    /\ ~ret.hit
    /\ ret.error
    /\ ret.df = <<>>
    /\ ~db.tables[TRANS].present
    /\ cache[TotalTransQuery(2023, 1)].cached
    /\ cache[TotalTransQuery(2023, 1)].error

(* ----------------------- properties of store faults -------------------- *)

WriteRaised == ret.op = "setup" /\ "fault" \in DOMAIN ret

\* C11: a store write failure leaves the prior state. Whenever the write of one
\* of the three tables raises during an ingestion run, the run returns False and
\* all three tables hold what they held before the run, the tables written
\* earlier in the run included.
C11_WriteFailureKeepsPriorState ==
    [][(ret'.op = "setup" /\ "fault" \in DOMAIN ret')
         => (~ret'.ok /\ db'.tables = db.tables)]_vars

(* ----------------------- properties of skipped files ------------------- *)

\* a period file whose processing ends in an error that the per-file handler
\* catches: the file is reported and skipped
Skipped(cat, f) == IsPeriodFile(f) /\ WellNamed(f) /\ Caught(Alone(cat, f).exc)

\* C12: a skipped file contributes nothing. When every period file of the tree
\* is well named and is either processed without error or skipped on a caught
\* error, the dataset is exactly the records of the files processed without
\* error: it holds no record of a skipped file, the records built from that
\* file's earlier well-formed entries included.
C12_SkippedFileContributesNothing ==
    (/\ Extracted
     /\ \A i \in 1..Len(ExtractedFiles) :
          IsPeriodFile(ExtractedFiles[i])
            => /\ WellNamed(ExtractedFiles[i])
               /\ \/ Alone(ret.cat, ExtractedFiles[i]).exc = "none"
                  \/ Skipped(ret.cat, ExtractedFiles[i]))
      => /\ ret.out.exc = "none"
         /\ ret.out.df = RecordsOfHealthy(ret.cat, ExtractedFiles)

(* ---------------------- properties of the setup command ---------------- *)

SetupLog == IF ret.op = "main" THEN ret.log ELSE <<>>

\* the setup command has returned
Returned == ret.op = "main" /\ ret.log # <<>> /\ proc = "shell"

Last(log) == log[Len(log)]

\* C13: setup ordering and abort. The setup command installs dependencies, then
\* acquires the source, then ingests, in that order; ingestion starts only after
\* a successful acquisition; the success message is printed only after both
\* succeeded, and a command that returns after a failed acquisition or ingestion
\* has printed a failure message; and while the store file is absent the
\* dashboard shows its no-data message and no query has been issued.
C13_SetupOrderAndAbort ==
    /\ \A i \in 1..Len(SetupLog) :
         /\ SetupLog[i] \in {"install", "install raised"} <=> i = 1
         /\ SetupLog[i] \in {"clone ok", "clone failed"}
              => (i = 2 /\ SetupLog[1] = "install")
         /\ SetupLog[i] \in {"setup ok", "setup failed"}
              => (i = 3 /\ SetupLog[2] = "clone ok")
         /\ SetupLog[i] = "Setup completed successfully!"
              => (i = 4 /\ SetupLog[2] = "clone ok" /\ SetupLog[3] = "setup ok")
    /\ (Returned /\ SetupLog[1] = "install")
         => /\ Len(SetupLog) >= 3
            /\ SetupLog[2] = "clone failed"
                 => Last(SetupLog) = "Repository setup failed!"
            /\ (Len(SetupLog) >= 4 /\ SetupLog[3] = "setup failed")
                 => Last(SetupLog) = "Database setup failed!"
            /\ (Len(SetupLog) >= 4 /\ SetupLog[3] = "setup ok")
                 => Last(SetupLog) = "Setup completed successfully!"
    /\ ~db.exists
         => /\ \A q \in Queries : cache[q] = NotCached
            /\ ret.op = "dashboard" => ret.log = <<"Database not found!">>

\* C13 witness: a command that installed, acquired the source, failed to ingest
\* and returned after printing the failure message
C13_Witness ==
    /\ Returned
    /\ ret.log = <<"install", "clone ok", "setup failed", "Database setup failed!">>
    /\ db.exists

(* ------------------------ properties of user totals -------------------- *)

\* a user file that has the aggregated totals and whose brand entries, if any,
\* are all well formed
HealthyUserFile(f) ==
    /\ WellNamed(f)
    /\ f.payload.kind = "agg"
    /\ f.payload.aggKind = "ok"
    /\ \A i \in 1..Len(f.payload.devices) : f.payload.devices[i].kind = "ok"

\* the sum, over the period files of year y and quarter q, of each file's
\* top-level registeredUsers (col "users") or appOpens
RECURSIVE FileTotals(_, _, _, _)
FileTotals(files, y, q, col) ==
    IF files = <<>> THEN 0
    ELSE (IF IsPeriodFile(Head(files)) /\ YearNumber(Head(files)) = y
               /\ QuarterNumber(Head(files)) = q
          THEN (IF col = "users" THEN Head(files).payload.registeredUsers
                ELSE Head(files).payload.appOpens)
          ELSE 0) + FileTotals(Tail(files), y, q, col)

\* the store after the extracted user dataset was written to its table
UserTableLoaded == to_sql(Connected(NoDb).db, USER, ret.out.df)

\* C14: aggregate user totals count each file once. After a tree of healthy
\* user files is extracted and loaded, the overview query of every year and
\* quarter returns the sum of the files' top-level registeredUsers and appOpens
\* for that period, however many brand entries each file has.
C14_UserTotalsCountFilesOnce ==
    (/\ Extracted
     /\ ret.cat = USER
     /\ ret.out.exc = "none"
     /\ ret.out.df # <<>>
     /\ \A i \in 1..Len(ExtractedFiles) :
          IsPeriodFile(ExtractedFiles[i]) => HealthyUserFile(ExtractedFiles[i]))
      => \A y \in {2023, 2024} : \A q \in {1, 2} :
           get_data_from_db(TotalUsersQuery(y, q), UserTableLoaded).df
             = <<[total_users |-> FileTotals(ExtractedFiles, y, q, "users"),
                  total_opens |-> FileTotals(ExtractedFiles, y, q, "opens")]>>

====
